---------------------------- MODULE Spec2Model ----------------------------
(***************************************************************************)
(* Model of src/main.py: the STV-style tabulator (plurality_scores, stv)   *)
(* and the manipulation search (prefers_over,                              *)
(* build_strategic_ballot_from_ranking, apply_manipulation,                *)
(* find_smallest_manipulating_coalition).                                  *)
(*                                                                         *)
(* Data representation                                                     *)
(*   candidate list   sequence of integers (ascending, no duplicates)      *)
(*   ranking          sequence of tie groups, a tie group is a sequence    *)
(*   ballot type      <<weight, ranking>>                                  *)
(*   Python None/list [is_none, items]  (NoneVal, ListVal(s))              *)
(*   float score      integer number of 1/Scale units; Scale is a common   *)
(*                    multiple of every possible tie-group size, so every  *)
(*                    share weight / len(group_rem) is exact.  For the     *)
(*                    weights and group sizes of the model the float64     *)
(*                    rounding error (< 1e-12) is far below the 1e-9       *)
(*                    tolerance, which is far below the smallest nonzero   *)
(*                    score difference (1/Scale), so the tolerance test    *)
(*                    decides the same way on floats and on exact values.  *)
(*   set iteration    CPython iterates a set of small non-negative         *)
(*                    integers in ascending order (hash(i) = i, ids below  *)
(*                    the table size); `for c in remaining` is modelled as *)
(*                    ascending order.                                     *)
(***************************************************************************)
EXTENDS Integers, Sequences, FiniteSets, TLC

VARIABLES
    pc,                 \* position of the running function
    candidates,         \* input: candidate list
    ballots,            \* input: ballot list
    \* ---- stv locals
    remaining, elimination_order, last_losers, winners,
    rounds,             \* number of iterations of the while loop so far
    \* ---- find_smallest_manipulating_coalition locals
    orig_winner, target_idx, type_index, k,
    best_k, best_target, best_type_index, best_true_ranking,
    best_strategic_ballot, best_new_elim_order,
    outcome,            \* "running", "none", "found", "fault"
    trials,             \* number of (target, type, k) combinations tried
    \* ---- arguments / results of the helper functions run on their own
    ranking, target, winner, strategic_ballot, new_ballots

tabVars == <<remaining, elimination_order, last_losers, winners, rounds>>
searchVars == <<orig_winner, target_idx, best_k, best_target, best_type_index,
                best_true_ranking, best_strategic_ballot, best_new_elim_order,
                outcome, trials>>
helperVars == <<ranking, target, winner, strategic_ballot, new_ballots>>
vars == <<pc, candidates, ballots, tabVars, searchVars, type_index, k, helperVars>>

----------------------------------------------------------------------------
(* Bounds of the model *)

MaxCand == 3        \* tabulator: candidates are 1..n, n <= MaxCand
MaxBallots == 2     \* tabulator: number of ballot types
MaxWeight == 3      \* tabulator: weight of a ballot type
SearchBallots == 3  \* search: number of ballot types
SearchWeight == 3   \* search: weight of a ballot type
SearchTie == 1      \* search: size of a tie group of an input ranking
BuildCand == 4      \* build_strategic_ballot_from_ranking alone: candidates 1..n, n <= BuildCand
ApplyBallots == 3   \* apply_manipulation alone: number of ballot types
ApplyWeight == 2    \* apply_manipulation alone: weight of a ballot type

----------------------------------------------------------------------------
(* Generic helpers *)

NoneVal == [is_none |-> TRUE, items |-> <<>>]
ListVal(s) == [is_none |-> FALSE, items |-> s]

Abs(x) == IF x < 0 THEN -x ELSE x

Range(s) == {s[i] : i \in 1..Len(s)}

Contains(s, x) == \E i \in 1..Len(s) : s[i] = x

MinOf(S) == CHOOSE x \in S : \A y \in S : x <= y

RECURSIVE SortedSeq(_)
SortedSeq(S) == IF S = {} THEN <<>>
                ELSE LET m == MinOf(S) IN <<m>> \o SortedSeq(S \ {m})

RECURSIVE Gcd(_, _)
Gcd(a, b) == IF b = 0 THEN a ELSE Gcd(b, a % b)

RECURSIVE LcmUpTo(_)
LcmUpTo(n) == IF n <= 1 THEN 1
              ELSE LET l == LcmUpTo(n - 1) IN (l * n) \div Gcd(l, n)

RECURSIVE SeqSum(_)
SeqSum(s) == IF s = <<>> THEN 0 ELSE s[1] + SeqSum(Tail(s))

RECURSIVE SetSum(_, _)
SetSum(f, S) == IF S = {} THEN 0
                ELSE LET x == CHOOSE y \in S : TRUE IN f[x] + SetSum(f, S \ {x})

\* list.remove(x): drop the first occurrence of x
RECURSIVE RemoveFirst(_, _)
RemoveFirst(s, x) == IF s = <<>> THEN <<>>
                     ELSE IF s[1] = x THEN Tail(s)
                     ELSE <<s[1]>> \o RemoveFirst(Tail(s), x)

\* position of the first occurrence of x in s, 0 when absent
RECURSIVE IndexOf(_, _)
IndexOf(s, x) == IF s = <<>> THEN 0
                 ELSE IF s[1] = x THEN 1
                 ELSE LET r == IndexOf(Tail(s), x) IN IF r = 0 THEN 0 ELSE r + 1

----------------------------------------------------------------------------
(* Input domains *)

\* non-empty duplicate-free sequences over S of length at most maxLen
RECURSIVE Arrangements(_, _)
Arrangements(S, maxLen) ==
    IF maxLen <= 0 THEN {}
    ELSE UNION {{<<c>>} \cup {<<c>> \o a : a \in Arrangements(S \ {c}, maxLen - 1)} : c \in S}

\* rankings over S with tie groups of at most maxTie candidates: tie groups are
\* non-empty, no candidate is in two groups, candidates may be left unranked
RECURSIVE RankingsTie(_, _)
RankingsTie(S, maxTie) ==
    {<<>>} \cup UNION {{<<g>> \o r : r \in RankingsTie(S \ Range(g), maxTie)} :
                         g \in Arrangements(S, maxTie)}

Rankings(S) == RankingsTie(S, Cardinality(S))

CandidateList(n) == [i \in 1..n |-> i]

BallotLists(R, maxLen, maxW) ==
    UNION {[1..n -> (1..maxW) \X R] : n \in 0..maxLen}

----------------------------------------------------------------------------
(* Tabulator: plurality_scores *)

\* score unit: a score s of the program is the integer s * Scale
Scale == LcmUpTo(MaxCand)

\* abs(a - b) < 1e-9 on scores held in 1/Scale units
TolInv == 1000000000
WithinTol(a, b) == Abs(a - b) <= (Scale - 1) \div TolInv

\* group_rem = [c for c in group if c in remaining]
GroupRem(group, rem) == SelectSeq(group, LAMBDA c : c \in rem)

\* for c in group_rem: scores[c] += share
RECURSIVE AddShare(_, _, _)
AddShare(scores, group_rem, share) ==
    IF group_rem = <<>> THEN scores
    ELSE AddShare([scores EXCEPT ![group_rem[1]] = @ + share], Tail(group_rem), share)

\* variant: every tied candidate receives the whole weight (no split)
RECURSIVE ScoreBallotNoSplit(_, _, _, _)
ScoreBallotNoSplit(scores, weight, rnk, rem) ==
    IF rnk = <<>> THEN scores
    ELSE LET group_rem == GroupRem(rnk[1], rem) IN
         IF group_rem # <<>>
         THEN AddShare(scores, group_rem, weight * Scale)
         ELSE ScoreBallotNoSplit(scores, weight, Tail(rnk), rem)

\* the inner `for group in ranking` loop with its break
RECURSIVE ScoreBallot(_, _, _, _)
ScoreBallot(scores, weight, rnk, rem) ==
    IF rnk = <<>> THEN scores
    ELSE LET group_rem == GroupRem(rnk[1], rem) IN
         IF group_rem # <<>>
         THEN AddShare(scores, group_rem, (weight * Scale) \div Len(group_rem))
         ELSE ScoreBallot(scores, weight, Tail(rnk), rem)

RECURSIVE ScoreBallots(_, _, _)
ScoreBallots(scores, bs, rem) ==
    IF bs = <<>> THEN scores
    ELSE ScoreBallots(ScoreBallot(scores, bs[1][1], bs[1][2], rem), Tail(bs), rem)

plurality_scores(rem, bs) == ScoreBallots([c \in rem |-> 0], bs, rem)

----------------------------------------------------------------------------
(* Tabulator: stv *)

\* variant: only candidates strictly below the minimum are removed
LosersStrict(scores, rem) ==
    LET min_score == MinOf({scores[c] : c \in rem}) IN
    SelectSeq(SortedSeq(rem), LAMBDA c : scores[c] < min_score)

\* losers = [c for c in remaining if abs(scores[c] - min_score) < 1e-9]
Losers(scores, rem) ==
    LET min_score == MinOf({scores[c] : c \in rem}) IN
    SelectSeq(SortedSeq(rem), LAMBDA c : WithinTol(scores[c], min_score))

\* variant: last_losers keeps only the first candidate removed in the round
StvIterFirstLoser(st, bs) ==
    LET scores == plurality_scores(st.remaining, bs)
        losers == Losers(scores, st.remaining)
    IN [remaining         |-> st.remaining \ Range(losers),
        elimination_order |-> st.elimination_order \o losers,
        last_losers       |-> ListVal(SubSeq(losers, 1, 1))]

\* variant: the round removes all losers but records only the first of them
StvIterRecordOne(st, bs) ==
    LET scores == plurality_scores(st.remaining, bs)
        losers == Losers(scores, st.remaining)
    IN [remaining         |-> st.remaining \ Range(losers),
        elimination_order |-> st.elimination_order \o SubSeq(losers, 1, 1),
        last_losers       |-> ListVal(losers)]

\* one iteration of `while remaining:`; st = [remaining, elimination_order, last_losers]
StvIter(st, bs) ==
    LET scores == plurality_scores(st.remaining, bs)
        losers == Losers(scores, st.remaining)
    IN [remaining         |-> st.remaining \ Range(losers),
        elimination_order |-> st.elimination_order \o losers,
        last_losers       |-> ListVal(losers)]

RECURSIVE StvLoop(_, _)
StvLoop(st, bs) == IF st.remaining = {} THEN st ELSE StvLoop(StvIter(st, bs), bs)

stv(cands, bs) ==
    LET st == StvLoop([remaining |-> Range(cands), elimination_order |-> <<>>,
                       last_losers |-> NoneVal], bs)
    IN [winners |-> st.last_losers, elimination_order |-> st.elimination_order]

----------------------------------------------------------------------------
(* Manipulation search: helper functions *)

\* candidate_position: the 0-based index of the first group holding cand is
\* modelled as the 1-based index, and None as 0
RECURSIVE candidate_position(_, _)
candidate_position(rnk, cand) ==
    IF rnk = <<>> THEN 0
    ELSE IF Contains(rnk[1], cand) THEN 1
    ELSE LET r == candidate_position(Tail(rnk), cand) IN IF r = 0 THEN 0 ELSE r + 1

\* variant: the two "unranked" cases are swapped
prefers_overSwapped(rnk, cand1, cand2) ==
    LET pos1 == candidate_position(rnk, cand1)
        pos2 == candidate_position(rnk, cand2)
    IN IF pos1 = 0 /\ pos2 = 0 THEN FALSE
       ELSE IF pos1 = 0 THEN TRUE
       ELSE IF pos2 = 0 THEN FALSE
       ELSE pos1 < pos2

prefers_over(rnk, cand1, cand2) ==
    LET pos1 == candidate_position(rnk, cand1)
        pos2 == candidate_position(rnk, cand2)
    IN IF pos1 = 0 /\ pos2 = 0 THEN FALSE
       ELSE IF pos1 = 0 THEN FALSE
       ELSE IF pos2 = 0 THEN TRUE
       ELSE pos1 < pos2

\* for c in cs: if c not in flat: flat.append(c)
RECURSIVE AppendNew(_, _)
AppendNew(flat, cs) ==
    IF cs = <<>> THEN flat
    ELSE AppendNew(IF Contains(flat, cs[1]) THEN flat ELSE Append(flat, cs[1]), Tail(cs))

\* for group in ranking: for c in group: ...
RECURSIVE FlattenGroups(_, _)
FlattenGroups(flat, rnk) ==
    IF rnk = <<>> THEN flat ELSE FlattenGroups(AppendNew(flat, rnk[1]), Tail(rnk))

\* variant: the winner is appended without being removed from its old place
build_strategic_ballotKeepWinner(rnk, tgt, win, all_candidates) ==
    LET flat1 == AppendNew(FlattenGroups(<<>>, rnk), all_candidates)
        flat2 == <<tgt>> \o (IF Contains(flat1, tgt) THEN RemoveFirst(flat1, tgt) ELSE flat1)
        flat3 == Append(flat2, win)
    IN [i \in 1..Len(flat3) |-> <<flat3[i]>>]

build_strategic_ballot_from_ranking(rnk, tgt, win, all_candidates) ==
    LET flat1 == AppendNew(FlattenGroups(<<>>, rnk), all_candidates)
        flat2 == <<tgt>> \o (IF Contains(flat1, tgt) THEN RemoveFirst(flat1, tgt) ELSE flat1)
        flat3 == Append(IF Contains(flat2, win) THEN RemoveFirst(flat2, win) ELSE flat2, win)
    IN [i \in 1..Len(flat3) |-> <<flat3[i]>>]

\* variant: the source type is kept when its weight drops to zero (w - k >= 0)
RECURSIVE ApplyFromKeepZero(_, _, _, _)
ApplyFromKeepZero(bs, idx, tidx, kk) ==
    IF idx > Len(bs) THEN <<>>
    ELSE LET w == bs[idx][1]
             r == bs[idx][2]
             kept == IF idx = tidx
                     THEN (IF w - kk >= 0 THEN <<(<<w - kk, r>>)>> ELSE <<>>)
                     ELSE <<(<<w, r>>)>>
         IN kept \o ApplyFromKeepZero(bs, idx + 1, tidx, kk)

\* the loop of apply_manipulation from position idx on (type_index is 1-based)
RECURSIVE ApplyFrom(_, _, _, _)
ApplyFrom(bs, idx, tidx, kk) ==
    IF idx > Len(bs) THEN <<>>
    ELSE LET w == bs[idx][1]
             r == bs[idx][2]
             kept == IF idx = tidx
                     THEN (IF w - kk > 0 THEN <<(<<w - kk, r>>)>> ELSE <<>>)
                     ELSE <<(<<w, r>>)>>
         IN kept \o ApplyFrom(bs, idx + 1, tidx, kk)

apply_manipulation(bs, tidx, kk, sb) == Append(ApplyFrom(bs, 1, tidx, kk), <<kk, sb>>)

----------------------------------------------------------------------------
(* Manipulation search: find_smallest_manipulating_coalition, one loop step *)
(* at a time.  target_idx and type_index are 1-based positions in          *)
(* candidates and ballots; best_k = 0 stands for best_k is None.           *)

TabIdle ==
    /\ remaining = {} /\ elimination_order = <<>> /\ last_losers = NoneVal
    /\ winners = NoneVal /\ rounds = 0

\* lines 217-228
SearchStart ==
    /\ pc = "start"
    /\ LET r == stv(candidates, ballots) IN
       IF r.winners.is_none
       THEN \* len(None) raises TypeError
            /\ outcome' = "fault" /\ pc' = "done"
            /\ UNCHANGED <<orig_winner, target_idx>>
       ELSE IF Len(r.winners.items) # 1
       THEN /\ outcome' = "none" /\ pc' = "done"
            /\ UNCHANGED <<orig_winner, target_idx>>
       ELSE /\ orig_winner' = r.winners.items[1]
            /\ target_idx' = 1
            /\ pc' = "target"
            /\ UNCHANGED outcome
    /\ UNCHANGED <<candidates, ballots, tabVars, type_index, k, best_k, best_target,
                   best_type_index, best_true_ranking, best_strategic_ballot,
                   best_new_elim_order, trials, helperVars>>

\* lines 230-232: head of `for target in candidates`
NextTarget ==
    /\ pc = "target"
    /\ IF target_idx > Len(candidates)
       THEN pc' = "return" /\ UNCHANGED <<target_idx, type_index>>
       ELSE IF candidates[target_idx] = orig_winner
       THEN pc' = "target" /\ target_idx' = target_idx + 1 /\ UNCHANGED type_index
       ELSE pc' = "type" /\ type_index' = 1 /\ UNCHANGED target_idx
    /\ UNCHANGED <<candidates, ballots, tabVars, k, orig_winner, best_k, best_target,
                   best_type_index, best_true_ranking, best_strategic_ballot,
                   best_new_elim_order, outcome, trials, helperVars>>

\* lines 234-240: head of `for type_index, (weight, ranking) in enumerate(ballots)`
NextType ==
    /\ pc = "type"
    /\ IF type_index > Len(ballots)
       THEN /\ pc' = "target" /\ target_idx' = target_idx + 1
            /\ UNCHANGED <<type_index, k, strategic_ballot>>
       ELSE IF ~prefers_over(ballots[type_index][2], candidates[target_idx], orig_winner)
       THEN /\ pc' = "type" /\ type_index' = type_index + 1
            /\ UNCHANGED <<target_idx, k, strategic_ballot>>
       ELSE /\ strategic_ballot' = build_strategic_ballot_from_ranking(
                    ballots[type_index][2], candidates[target_idx], orig_winner, candidates)
            /\ k' = 1
            /\ pc' = "trial"
            /\ UNCHANGED <<target_idx, type_index>>
    /\ UNCHANGED <<candidates, ballots, tabVars, orig_winner, best_k, best_target,
                   best_type_index, best_true_ranking, best_strategic_ballot,
                   best_new_elim_order, outcome, trials, ranking, target, winner,
                   new_ballots>>

\* variant: every success overwrites the best result (no `k < best_k` test)
TryCoalitionKeepLast ==
    /\ pc = "trial"
    /\ IF k > ballots[type_index][1]
       THEN \* range exhausted
            /\ pc' = "type" /\ type_index' = type_index + 1
            /\ UNCHANGED <<k, best_k, best_target, best_type_index, best_true_ranking,
                           best_strategic_ballot, best_new_elim_order, trials>>
       ELSE LET manipulated_ballots ==
                    apply_manipulation(ballots, type_index, k, strategic_ballot)
                res == stv(candidates, manipulated_ballots)
                tgt == candidates[target_idx]
            IN /\ trials' = trials + 1
               /\ IF Len(res.winners.items) = 1 /\ res.winners.items[1] = tgt
                  THEN /\ IF TRUE
                          THEN /\ best_k' = k
                               /\ best_target' = tgt
                               /\ best_type_index' = type_index
                               /\ best_true_ranking' = ballots[type_index][2]
                               /\ best_strategic_ballot' = strategic_ballot
                               /\ best_new_elim_order' = res.elimination_order
                          ELSE UNCHANGED <<best_k, best_target, best_type_index,
                                           best_true_ranking, best_strategic_ballot,
                                           best_new_elim_order>>
                       \* break
                       /\ pc' = "type" /\ type_index' = type_index + 1
                       /\ UNCHANGED k
                  ELSE /\ k' = k + 1
                       /\ pc' = "trial"
                       /\ UNCHANGED <<type_index, best_k, best_target, best_type_index,
                                      best_true_ranking, best_strategic_ballot,
                                      best_new_elim_order>>
    /\ UNCHANGED <<candidates, ballots, tabVars, orig_winner, target_idx, outcome,
                   strategic_ballot, ranking, target, winner, new_ballots>>

\* lines 242-259: one iteration of `for k in range(1, weight + 1)`
TryCoalition ==
    /\ pc = "trial"
    /\ IF k > ballots[type_index][1]
       THEN \* range exhausted
            /\ pc' = "type" /\ type_index' = type_index + 1
            /\ UNCHANGED <<k, best_k, best_target, best_type_index, best_true_ranking,
                           best_strategic_ballot, best_new_elim_order, trials>>
       ELSE LET manipulated_ballots ==
                    apply_manipulation(ballots, type_index, k, strategic_ballot)
                res == stv(candidates, manipulated_ballots)
                tgt == candidates[target_idx]
            IN /\ trials' = trials + 1
               /\ IF Len(res.winners.items) = 1 /\ res.winners.items[1] = tgt
                  THEN /\ IF best_k = 0 \/ k < best_k
                          THEN /\ best_k' = k
                               /\ best_target' = tgt
                               /\ best_type_index' = type_index
                               /\ best_true_ranking' = ballots[type_index][2]
                               /\ best_strategic_ballot' = strategic_ballot
                               /\ best_new_elim_order' = res.elimination_order
                          ELSE UNCHANGED <<best_k, best_target, best_type_index,
                                           best_true_ranking, best_strategic_ballot,
                                           best_new_elim_order>>
                       \* break
                       /\ pc' = "type" /\ type_index' = type_index + 1
                       /\ UNCHANGED k
                  ELSE /\ k' = k + 1
                       /\ pc' = "trial"
                       /\ UNCHANGED <<type_index, best_k, best_target, best_type_index,
                                      best_true_ranking, best_strategic_ballot,
                                      best_new_elim_order>>
    /\ UNCHANGED <<candidates, ballots, tabVars, orig_winner, target_idx, outcome,
                   strategic_ballot, ranking, target, winner, new_ballots>>

\* lines 261-272
SearchReturn ==
    /\ pc = "return"
    /\ outcome' = (IF best_k = 0 THEN "none" ELSE "found")
    /\ pc' = "done"
    /\ UNCHANGED <<candidates, ballots, tabVars, orig_winner, target_idx, type_index, k,
                   best_k, best_target, best_type_index, best_true_ranking,
                   best_strategic_ballot, best_new_elim_order, trials, helperVars>>

InitSearch ==
    /\ \E n \in 0..MaxCand :
          /\ candidates = CandidateList(n)
          /\ ballots \in BallotLists(RankingsTie(1..n, SearchTie), SearchBallots, SearchWeight)
    /\ pc = "start"
    /\ TabIdle
    /\ orig_winner = 0 /\ target_idx = 0 /\ type_index = 0 /\ k = 0
    /\ best_k = 0 /\ best_target = 0 /\ best_type_index = 0
    /\ best_true_ranking = <<>> /\ best_strategic_ballot = <<>>
    /\ best_new_elim_order = <<>>
    /\ outcome = "running" /\ trials = 0
    /\ ranking = <<>> /\ target = 0 /\ winner = 0
    /\ strategic_ballot = <<>> /\ new_ballots = <<>>

NextSearch == SearchStart \/ NextTarget \/ NextType \/ TryCoalition \/ SearchReturn

SpecSearch == InitSearch /\ [][NextSearch]_vars

----------------------------------------------------------------------------
(* build_strategic_ballot_from_ranking run on its own *)

InitBuild ==
    /\ \E n \in 1..BuildCand :
          /\ candidates = CandidateList(n)
          /\ ranking \in Rankings(1..n)
          /\ target \in 1..n
          /\ winner \in 1..n
    /\ pc = "call"
    /\ ballots = <<>>
    /\ TabIdle
    /\ orig_winner = 0 /\ target_idx = 0 /\ type_index = 0 /\ k = 0
    /\ best_k = 0 /\ best_target = 0 /\ best_type_index = 0
    /\ best_true_ranking = <<>> /\ best_strategic_ballot = <<>>
    /\ best_new_elim_order = <<>>
    /\ outcome = "running" /\ trials = 0
    /\ strategic_ballot = <<>> /\ new_ballots = <<>>

BuildStrategic ==
    /\ pc = "call"
    /\ strategic_ballot' =
          build_strategic_ballot_from_ranking(ranking, target, winner, candidates)
    /\ pc' = "done"
    /\ UNCHANGED <<candidates, ballots, tabVars, searchVars, type_index, k,
                   ranking, target, winner, new_ballots>>

NextBuild == BuildStrategic

SpecBuild == InitBuild /\ [][NextBuild]_vars

----------------------------------------------------------------------------
(* apply_manipulation run on its own; k is also drawn outside 1..weight *)

\* apply_manipulation never looks into a ranking: a few distinct ones suffice
ApplyRankings == {<<>>, <<(<<1>>)>>, <<(<<2>>), <<1>>>>, <<(<<1, 2>>)>>}
ApplyStrategic == {<<(<<1>>), <<2>>>>, <<(<<2>>), <<1>>>>}

InitApply ==
    /\ candidates = <<1, 2>>
    /\ ballots \in BallotLists(ApplyRankings, ApplyBallots, ApplyWeight)
    /\ type_index \in 1..Len(ballots)
    /\ k \in 0..(ApplyWeight + 1)
    /\ strategic_ballot \in ApplyStrategic
    /\ pc = "call"
    /\ TabIdle
    /\ orig_winner = 0 /\ target_idx = 0
    /\ best_k = 0 /\ best_target = 0 /\ best_type_index = 0
    /\ best_true_ranking = <<>> /\ best_strategic_ballot = <<>>
    /\ best_new_elim_order = <<>>
    /\ outcome = "running" /\ trials = 0
    /\ ranking = <<>> /\ target = 0 /\ winner = 0
    /\ new_ballots = <<>>

ApplyManipulation ==
    /\ pc = "call"
    /\ new_ballots' = apply_manipulation(ballots, type_index, k, strategic_ballot)
    /\ pc' = "done"
    /\ UNCHANGED <<candidates, ballots, tabVars, searchVars, type_index, k,
                   ranking, target, winner, strategic_ballot>>

NextApply == ApplyManipulation

SpecApply == InitApply /\ [][NextApply]_vars

----------------------------------------------------------------------------
(* Specification of the tabulator: stv run one loop iteration at a time *)

HelperIdle ==
    /\ ranking = <<>> /\ target = 0 /\ winner = 0
    /\ strategic_ballot = <<>> /\ new_ballots = <<>>

SearchIdle ==
    /\ orig_winner = 0 /\ target_idx = 0 /\ type_index = 0 /\ k = 0
    /\ best_k = 0 /\ best_target = 0 /\ best_type_index = 0
    /\ best_true_ranking = <<>> /\ best_strategic_ballot = <<>>
    /\ best_new_elim_order = <<>>
    /\ outcome = "running" /\ trials = 0

\* stv lines 112-114
StvEntry(cands) ==
    /\ remaining = Range(cands)
    /\ elimination_order = <<>>
    /\ last_losers = NoneVal
    /\ winners = NoneVal
    /\ rounds = 0

InitTab ==
    /\ \E n \in 0..MaxCand :
          /\ candidates = CandidateList(n)
          /\ ballots \in BallotLists(Rankings(1..n), MaxBallots, MaxWeight)
    /\ pc = "loop"
    /\ StvEntry(candidates)
    /\ SearchIdle
    /\ HelperIdle

\* stv lines 116-127: one iteration of the while loop
StvRound ==
    /\ pc = "loop"
    /\ remaining # {}
    /\ LET st == StvIter([remaining |-> remaining,
                          elimination_order |-> elimination_order,
                          last_losers |-> last_losers], ballots)
       IN /\ remaining' = st.remaining
          /\ elimination_order' = st.elimination_order
          /\ last_losers' = st.last_losers
    /\ rounds' = rounds + 1
    /\ UNCHANGED <<pc, candidates, ballots, winners, searchVars, type_index, k, helperVars>>

\* stv lines 129-130: the loop condition is false, winners = last_losers
StvReturn ==
    /\ pc = "loop"
    /\ remaining = {}
    /\ winners' = last_losers
    /\ pc' = "done"
    /\ UNCHANGED <<candidates, ballots, remaining, elimination_order, last_losers,
                   rounds, searchVars, type_index, k, helperVars>>

NextTab == StvRound \/ StvReturn

Spec == InitTab /\ [][NextTab]_vars

\* the loop is a sequential program: it keeps running until it returns
FairSpec == Spec /\ WF_vars(NextTab)

----------------------------------------------------------------------------
(* Properties of the manipulation search *)

\* k voters of ballot type y switching to the strategic ballot for target t
\* make t the sole winner
Succeeds(t, y, kk) ==
    LET sb == build_strategic_ballot_from_ranking(ballots[y][2], t, orig_winner, candidates)
        res == stv(candidates, apply_manipulation(ballots, y, kk, sb))
    IN res.winners = ListVal(<<t>>)

\* the tie groups of rnk that hold candidate c
GroupsOf(rnk, c) == {i \in 1..Len(rnk) : c \in Range(rnk[i])}

\* a is ranked, and b is unranked or in a later tie group than a
StrictlyPrefers(rnk, a, b) ==
    /\ GroupsOf(rnk, a) # {}
    /\ (GroupsOf(rnk, b) = {} \/ MinOf(GroupsOf(rnk, a)) < MinOf(GroupsOf(rnk, b)))

\* the (target, ballot type) combinations the search may use
Combos ==
    {c \in (1..Len(candidates)) \X (1..Len(ballots)) :
        /\ candidates[c[1]] # orig_winner
        /\ StrictlyPrefers(ballots[c[2]][2], candidates[c[1]], orig_winner)}

\* search order: targets in candidate order, then ballot types in list order
ComboBefore(c, d) == c[1] < d[1] \/ (c[1] = d[1] /\ c[2] < d[2])

BestCombo == <<IndexOf(candidates, best_target), best_type_index>>

\* C5: the returned coalition size is the smallest that succeeds for any target
\* other than the incumbent and any ballot type strictly preferring it, and among
\* the combinations succeeding with that size the first in search order is returned.
C5_SmallestCoalitionFirstInOrder ==
    (pc = "done" /\ outcome = "found") =>
        /\ BestCombo \in Combos
        /\ \A c \in Combos :
              /\ \A kk \in 1..ballots[c[2]][1] :
                    kk < best_k => ~Succeeds(candidates[c[1]], c[2], kk)
              /\ (best_k <= ballots[c[2]][1] /\ Succeeds(candidates[c[1]], c[2], best_k))
                    => ~ComboBefore(c, BestCombo)

C5_Witness ==
    /\ pc = "done" /\ outcome = "found" /\ best_k >= 2
    /\ \E c \in Combos : c # BestCombo

\* C6: a returned result is a genuine manipulation: the target is not the original
\* winner, the source type strictly prefers the target, 1 <= k <= weight of the
\* type, and tabulating the manipulated ballots gives exactly {target} with the
\* recorded elimination order.
C6_ResultIsGenuineManipulation ==
    (pc = "done" /\ outcome = "found") =>
        /\ stv(candidates, ballots).winners = ListVal(<<orig_winner>>)
        /\ best_target \in Range(candidates)
        /\ best_target # orig_winner
        /\ best_type_index \in 1..Len(ballots)
        /\ best_true_ranking = ballots[best_type_index][2]
        /\ StrictlyPrefers(best_true_ranking, best_target, orig_winner)
        /\ 1 <= best_k /\ best_k <= ballots[best_type_index][1]
        /\ best_strategic_ballot = build_strategic_ballot_from_ranking(
               best_true_ranking, best_target, orig_winner, candidates)
        /\ LET res == stv(candidates, apply_manipulation(ballots, best_type_index, best_k,
                                                         best_strategic_ballot))
           IN /\ res.winners = ListVal(<<best_target>>)
              /\ res.elimination_order = best_new_elim_order

C6_Witness ==
    /\ pc = "done" /\ outcome = "found" /\ best_k >= 2
    /\ GroupsOf(best_true_ranking, orig_winner) = {}

\* two combinations succeed with the same smallest size: the search order decides
C5_TieReached ==
    /\ pc = "done" /\ outcome = "found"
    /\ \E c \in Combos :
          /\ c # BestCombo
          /\ best_k <= ballots[c[2]][1]
          /\ Succeeds(candidates[c[1]], c[2], best_k)

\* C7: when the unmodified ballots do not give exactly one winner the search
\* returns "no result", tries no combination and raises no fault.
C7_NoUniqueWinnerGivesNoResult ==
    LET w == stv(candidates, ballots).winners IN
    (pc = "done" /\ (w.is_none \/ Len(w.items) # 1)) =>
        /\ outcome = "none"
        /\ trials = 0

----------------------------------------------------------------------------
(* Properties of the helper functions *)

RECURSIVE Concat(_)
Concat(ss) == IF ss = <<>> THEN <<>> ELSE ss[1] \o Concat(Tail(ss))

\* the flattened ranking followed by the unranked candidates in canonical order
ReferenceOrder(rnk, all_candidates) ==
    LET ranked == Concat(rnk)
    IN ranked \o SelectSeq(all_candidates, LAMBDA c : c \notin Range(ranked))

\* C9: for target # winner the strategic ballot is a ranking of singleton groups,
\* a permutation of the candidate set, with the target first, the winner last and
\* all other candidates in the order of the flattened original ranking followed by
\* the unranked candidates; [[2],[1,3]], target 3, winner 2, {1,2,3,4} gives
\* [[3],[1],[4],[2]].
C9_StrategicBallotShape ==
    (pc = "done" /\ target # winner) =>
        LET n == Len(strategic_ballot)
            ref == ReferenceOrder(ranking, candidates)
            others == Range(candidates) \ {target, winner}
            pos(c) == CHOOSE i \in 1..n : strategic_ballot[i] = <<c>>
        IN /\ n = Len(candidates)
           /\ \A i \in 1..n : Len(strategic_ballot[i]) = 1
           /\ {strategic_ballot[i][1] : i \in 1..n} = Range(candidates)
           /\ strategic_ballot[1] = <<target>>
           /\ strategic_ballot[n] = <<winner>>
           /\ \A a, b \in others :
                 (pos(a) < pos(b)) <=> (IndexOf(ref, a) < IndexOf(ref, b))
           /\ (candidates = <<1, 2, 3, 4>> /\ ranking = <<(<<2>>), <<1, 3>>>>
                  /\ target = 3 /\ winner = 2)
                 => strategic_ballot = <<(<<3>>), <<1>>, <<4>>, <<2>>>>

C9_Witness ==
    /\ pc = "done"
    /\ candidates = <<1, 2, 3, 4>> /\ ranking = <<(<<2>>), <<1, 3>>>>
    /\ target = 3 /\ winner = 2
    /\ strategic_ballot = <<(<<3>>), <<1>>, <<4>>, <<2>>>>

TotalWeight(bs) == SeqSum([i \in 1..Len(bs) |-> bs[i][1]])

\* C10: for 1 <= k <= weight of the source type, apply_manipulation returns the
\* ballots with the source type's weight reduced by k (dropped when k equals the
\* weight), every other type unchanged and in order, and (k, strategic_ballot)
\* appended last; all weights stay positive, the total weight is kept, and the
\* input list is not modified.
C10_ApplyManipulationFrame ==
    /\ [][ballots' = ballots]_vars
    /\ []((pc = "done" /\ 1 <= k /\ k <= ballots[type_index][1]) =>
            LET n == Len(ballots)
                m == Len(new_ballots)
                w == ballots[type_index][1]
            IN /\ m = (IF k = w THEN n ELSE n + 1)
               /\ new_ballots[m] = <<k, strategic_ballot>>
               /\ \A i \in 1..(type_index - 1) : new_ballots[i] = ballots[i]
               /\ k < w =>
                     /\ new_ballots[type_index] = <<w - k, ballots[type_index][2]>>
                     /\ \A i \in (type_index + 1)..n : new_ballots[i] = ballots[i]
               /\ k = w =>
                     \A i \in (type_index + 1)..n : new_ballots[i - 1] = ballots[i]
               /\ \A i \in 1..m : new_ballots[i][1] > 0
               /\ TotalWeight(new_ballots) = TotalWeight(ballots))

C10_Witness ==
    /\ pc = "done" /\ Len(ballots) >= 3 /\ type_index = 2
    /\ k = ballots[type_index][1]
    /\ Len(new_ballots) = Len(ballots)

----------------------------------------------------------------------------
(* Properties of the tabulator *)

\* the candidates appended to elimination_order by the step just taken
AppendedGroup ==
    SubSeq(elimination_order', Len(elimination_order) + 1, Len(elimination_order'))

\* C1: the winners stv returns are exactly the candidates removed in the final
\* round (the last group appended to elimination_order); when the first round
\* already removes every candidate, all candidates are joint winners.
C1_WinnersAreLastGroup ==
    [][ /\ (rounds' = rounds + 1 /\ remaining' = {}) =>
              /\ last_losers' = ListVal(AppendedGroup)
              /\ AppendedGroup # <<>>
              /\ Range(AppendedGroup) = remaining
              /\ (rounds = 0 => Range(AppendedGroup) = Range(candidates))
        /\ (pc = "loop" /\ pc' = "done" /\ rounds > 0) =>
              /\ winners' = last_losers
              /\ ~winners'.is_none
              /\ LET n == Len(winners'.items) m == Len(elimination_order') IN
                 /\ n >= 1 /\ n <= m
                 /\ winners'.items = SubSeq(elimination_order', m - n + 1, m)
      ]_vars

C1_Witness ==
    /\ pc = "done" /\ rounds >= 2 /\ ~winners.is_none /\ Len(winners.items) >= 2

C1_WitnessAllTied ==
    /\ pc = "done" /\ rounds = 1 /\ Len(candidates) >= 2
    /\ ~winners.is_none /\ Range(winners.items) = Range(candidates)

\* C2: for a non-empty candidate set, when stv returns the elimination order is
\* a permutation of the candidate set: every candidate exactly once, nothing else.
C2_EliminationOrderIsPermutation ==
    (pc = "done" /\ candidates # <<>>) =>
        /\ Len(elimination_order) = Len(candidates)
        /\ Range(elimination_order) = Range(candidates)
        /\ \A i, j \in 1..Len(elimination_order) :
              elimination_order[i] = elimination_order[j] => i = j

C2_Witness ==
    /\ pc = "done" /\ Len(candidates) >= 3 /\ rounds = 2 /\ Len(ballots) >= 1

\* C3: every round removes at least one candidate, the remaining set never
\* grows, the loop runs at most |candidates| rounds and then returns.
C3_RoundsShrinkAndTerminate ==
    /\ [][ /\ remaining' \subseteq remaining
           /\ (rounds' # rounds =>
                 /\ rounds' = rounds + 1
                 /\ remaining' # remaining
                 /\ Len(elimination_order') > Len(elimination_order)) ]_vars
    /\ [](rounds + Cardinality(remaining) <= Len(candidates))
    /\ [](pc = "done" => remaining = {} /\ rounds <= Len(candidates))
    /\ <>(pc = "done")

C3_Witness ==
    /\ pc = "done" /\ Len(candidates) >= 3 /\ rounds = Len(candidates)

\* a ballot is exhausted when none of its tie groups holds a remaining candidate
Exhausted(b, rem) == \A i \in 1..Len(b[2]) : Range(b[2][i]) \cap rem = {}

ActiveBallots(bs, rem) == SelectSeq(bs, LAMBDA b : ~Exhausted(b, rem))

ActiveWeight(bs, rem) ==
    LET act == ActiveBallots(bs, rem) IN SeqSum([i \in 1..Len(act) |-> act[i][1]])

\* C4: in every round the scores of the remaining candidates sum to the total
\* weight of the non-exhausted ballots, and exhausted ballots add 0 to every score.
C4_ScoreConservation ==
    (pc = "loop" /\ remaining # {}) =>
        LET scores == plurality_scores(remaining, ballots) IN
        /\ DOMAIN scores = remaining
        /\ SetSum(scores, remaining) = Scale * ActiveWeight(ballots, remaining)
        /\ scores = plurality_scores(remaining, ActiveBallots(ballots, remaining))
        /\ \A c \in remaining : scores[c] >= 0

C4_Witness ==
    /\ pc = "loop" /\ rounds >= 1 /\ remaining # {}
    /\ \E i, j \in 1..Len(ballots) :
          /\ Exhausted(ballots[i], remaining)
          /\ ~Exhausted(ballots[j], remaining)
          /\ Len(GroupRem(ballots[j][2][1], remaining)) >= 2

\* C8: for the empty candidate set stv returns winners = [] and
\* elimination_order = [].
C8_EmptyCandidatesGiveEmptyLists ==
    (pc = "done" /\ candidates = <<>>) =>
        /\ winners = ListVal(<<>>)
        /\ elimination_order = <<>>

=============================================================================
